---------------------------- MODULE Spec2Model ----------------------------
(***************************************************************************)
(* Resume document generation engine of finalproject.py:                   *)
(*   - generate_resume_text / build_fallback_resume_text (text synthesis)  *)
(*   - create_pdf_bytes (document rendering with an optional photo)        *)
(* Strings are sequences of one-character strings, so that strip, split,   *)
(* splitlines, join, lower and upper are computed character by character.  *)
(***************************************************************************)
EXTENDS Integers, Sequences, FiniteSets, TLC

\* ------------------------------------------------------------------------
\* Bounds of the explored inputs
\* ------------------------------------------------------------------------
MaxExpLen == 2

MaxCerts == 2

MaxCalls == 2

MaxGenLen == 1

\* a body long enough to pass the bottom of the first page
LongBody == 34

\* ------------------------------------------------------------------------
\* Python string operations
\* ------------------------------------------------------------------------
\* characters str.strip() removes and str.splitlines() breaks on
Whitespace == {" ", "\n", "\r", "\t"}

LineBreaks == {"\n", "\r"}

UpperLetters ==
    <<"A", "B", "C", "D", "E", "F", "G", "H", "I", "J", "K", "L", "M",
      "N", "O", "P", "Q", "R", "S", "T", "U", "V", "W", "X", "Y", "Z">>

LowerLetters ==
    <<"a", "b", "c", "d", "e", "f", "g", "h", "i", "j", "k", "l", "m",
      "n", "o", "p", "q", "r", "s", "t", "u", "v", "w", "x", "y", "z">>

LowerChar(c) ==
    IF \E i \in 1..26 : UpperLetters[i] = c
    THEN LowerLetters[CHOOSE i \in 1..26 : UpperLetters[i] = c]
    ELSE c

UpperChar(c) ==
    IF \E i \in 1..26 : LowerLetters[i] = c
    THEN UpperLetters[CHOOSE i \in 1..26 : LowerLetters[i] = c]
    ELSE c

\* str.lower()
Lower(s) == [i \in 1..Len(s) |-> LowerChar(s[i])]

\* str.upper()
Upper(s) == [i \in 1..Len(s) |-> UpperChar(s[i])]

RECURSIVE LStrip(_)
LStrip(s) ==
    IF s # <<>> /\ Head(s) \in Whitespace THEN LStrip(Tail(s)) ELSE s

RECURSIVE RStrip(_)
RStrip(s) ==
    IF s # <<>> /\ s[Len(s)] \in Whitespace
    THEN RStrip(SubSeq(s, 1, Len(s) - 1))
    ELSE s

\* str.strip()
Strip(s) == RStrip(LStrip(s))

RECURSIVE SplitLinesFrom(_, _, _)
SplitLinesFrom(s, cur, acc) ==
    IF s = <<>> THEN (IF cur = <<>> THEN acc ELSE Append(acc, cur))
    ELSE IF Head(s) = "\r" /\ Len(s) >= 2 /\ s[2] = "\n"
         THEN SplitLinesFrom(Tail(Tail(s)), <<>>, Append(acc, cur))
    ELSE IF Head(s) \in LineBreaks
         THEN SplitLinesFrom(Tail(s), <<>>, Append(acc, cur))
    ELSE SplitLinesFrom(Tail(s), Append(cur, Head(s)), acc)

\* str.splitlines(): no empty last line after a final line break
SplitLines(s) == SplitLinesFrom(s, <<>>, <<>>)

RECURSIVE SplitFrom(_, _, _, _)
SplitFrom(s, sep, cur, acc) ==
    IF s = <<>> THEN Append(acc, cur)
    ELSE IF Head(s) = sep
         THEN SplitFrom(Tail(s), sep, <<>>, Append(acc, cur))
    ELSE SplitFrom(Tail(s), sep, Append(cur, Head(s)), acc)

\* str.split(sep) for a one-character separator
Split(s, sep) == SplitFrom(s, sep, <<>>, <<>>)

RECURSIVE Join(_, _)
\* sep.join(list)
Join(list, sep) ==
    IF list = <<>> THEN <<>>
    ELSE IF Len(list) = 1 THEN list[1]
    ELSE list[1] \o sep \o Join(Tail(list), sep)

\* [f(l) for l in list if l.strip()] with f = strip
StrippedNonBlank(list) ==
    LET kept == SelectSeq(list, LAMBDA l : Strip(l) # <<>>)
    IN  [i \in 1..Len(kept) |-> Strip(kept[i])]

\* "- " prefix of the bullets, lines 193-194
Bullet(e) == <<"-", " ">> \o e

Bullets(list) == Join([i \in 1..Len(list) |-> Bullet(list[i])], <<"\n">>)

\* ------------------------------------------------------------------------
\* Literals of build_fallback_resume_text
\* ------------------------------------------------------------------------
\* f-string piece of line 171: 'Reliable '
SummaryHead1 ==
    <<"R", "e", "l", "i", "a", "b", "l", "e", " ">>

\* f-string piece of line 171: ' with '
SummaryHead2 ==
    <<" ", "w", "i", "t", "h", " ">>

\* f-string piece of line 171: ' years of experience in '
SummaryHead3 ==
    <<" ", "y", "e", "a", "r", "s", " ", "o", "f", " ", "e", "x",
      "p", "e", "r", "i", "e", "n", "c", "e", " ", "i", "n", " ">>

\* f-string piece of line 171: ' work. '
SummaryHead4 ==
    <<" ", "w", "o", "r", "k", ".", " ">>

\* line 174: 'Known for strong work ethic, safety-first approach, and consistent on-time completion of projects.'
SummaryClose ==
    <<"K", "n", "o", "w", "n", " ", "f", "o", "r", " ", "s", "t",
      "r", "o", "n", "g", " ", "w", "o", "r", "k", " ", "e", "t",
      "h", "i", "c", ",", " ", "s", "a", "f", "e", "t", "y", "-",
      "f", "i", "r", "s", "t", " ", "a", "p", "p", "r", "o", "a",
      "c", "h", ",", " ", "a", "n", "d", " ", "c", "o", "n", "s",
      "i", "s", "t", "e", "n", "t", " ", "o", "n", "-", "t", "i",
      "m", "e", " ", "c", "o", "m", "p", "l", "e", "t", "i", "o",
      "n", " ", "o", "f", " ", "p", "r", "o", "j", "e", "c", "t",
      "s", ".">>

\* line 179: 'Performed '
GenericExp1Head ==
    <<"P", "e", "r", "f", "o", "r", "m", "e", "d", " ">>

\* line 179: ' tasks including installation, maintenance, and repairs.'
GenericExp1Tail ==
    <<" ", "t", "a", "s", "k", "s", " ", "i", "n", "c", "l", "u",
      "d", "i", "n", "g", " ", "i", "n", "s", "t", "a", "l", "l",
      "a", "t", "i", "o", "n", ",", " ", "m", "a", "i", "n", "t",
      "e", "n", "a", "n", "c", "e", ",", " ", "a", "n", "d", " ",
      "r", "e", "p", "a", "i", "r", "s", ".">>

\* line 180: 'Followed safety protocols and maintained jobsite cleanliness.'
GenericExp2 ==
    <<"F", "o", "l", "l", "o", "w", "e", "d", " ", "s", "a", "f",
      "e", "t", "y", " ", "p", "r", "o", "t", "o", "c", "o", "l",
      "s", " ", "a", "n", "d", " ", "m", "a", "i", "n", "t", "a",
      "i", "n", "e", "d", " ", "j", "o", "b", "s", "i", "t", "e",
      " ", "c", "l", "e", "a", "n", "l", "i", "n", "e", "s", "s",
      ".">>

\* line 181: 'Collaborated with teams to complete projects on schedule.'
GenericExp3 ==
    <<"C", "o", "l", "l", "a", "b", "o", "r", "a", "t", "e", "d",
      " ", "w", "i", "t", "h", " ", "t", "e", "a", "m", "s", " ",
      "t", "o", " ", "c", "o", "m", "p", "l", "e", "t", "e", " ",
      "p", "r", "o", "j", "e", "c", "t", "s", " ", "o", "n", " ",
      "s", "c", "h", "e", "d", "u", "l", "e", ".">>

\* line 186: ' installation'
GenericSkill1Tail ==
    <<" ", "i", "n", "s", "t", "a", "l", "l", "a", "t", "i", "o",
      "n">>

\* line 186: 'Equipment maintenance'
GenericSkill2 ==
    <<"E", "q", "u", "i", "p", "m", "e", "n", "t", " ", "m", "a",
      "i", "n", "t", "e", "n", "a", "n", "c", "e">>

\* line 186: 'Safety compliance'
GenericSkill3 ==
    <<"S", "a", "f", "e", "t", "y", " ", "c", "o", "m", "p", "l",
      "i", "a", "n", "c", "e">>

\* line 189: 'N/A'
NotAvailable ==
    <<"N", "/", "A">>

\* line 192: 'PROFESSIONAL SUMMARY\n'
SummaryLabel ==
    <<"P", "R", "O", "F", "E", "S", "S", "I", "O", "N", "A", "L",
      " ", "S", "U", "M", "M", "A", "R", "Y", "\n">>

\* line 193: 'EXPERIENCE\n'
ExperienceLabel ==
    <<"E", "X", "P", "E", "R", "I", "E", "N", "C", "E", "\n">>

\* line 194: '\nSKILLS\n'
SkillsLabel ==
    <<"\n", "S", "K", "I", "L", "L", "S", "\n">>

\* line 195: '\nCERTIFICATIONS\n'
CertificationsLabel ==
    <<"\n", "C", "E", "R", "T", "I", "F", "I", "C", "A", "T", "I",
      "O", "N", "S", "\n">>

\* line 197: '\nEDUCATION\n'
EducationLabel ==
    <<"\n", "E", "D", "U", "C", "A", "T", "I", "O", "N", "\n">>

\* ------------------------------------------------------------------------
\* dict access on the profile: absent holds the keys missing from data
\* ------------------------------------------------------------------------
\* data.get(k, "")
GetStr(data, k) == IF k \in data.absent THEN <<>> ELSE data[k]

\* truth value of data.get(k): None, "" and [] are false
Truthy(data, k) == k \notin data.absent /\ data[k] # <<>>

\* data.get(k) or alt
GetOr(data, k, alt) == IF Truthy(data, k) THEN data[k] ELSE alt

\* ------------------------------------------------------------------------
\* build_fallback_resume_text
\* ------------------------------------------------------------------------
Summary(data) ==
    LET trade == GetStr(data, "trade")
        years == GetStr(data, "years_experience")
        head  == SummaryHead1 \o trade \o SummaryHead2 \o years
                   \o SummaryHead3 \o Lower(trade) \o SummaryHead4
        notes == IF Truthy(data, "special_notes")
                 THEN data.special_notes \o <<" ">>
                 ELSE <<>>
    IN  head \o notes \o SummaryClose

GenericExperience(trade) ==
    << GenericExp1Head \o Lower(trade) \o GenericExp1Tail,
       GenericExp2,
       GenericExp3 >>

\* the lines taken without the "if l.strip()" filter
ExpLinesUnfiltered(data) ==
    LET lines == SplitLines(GetStr(data, "experience_text"))
    IN  IF lines = <<>>
        THEN GenericExperience(GetStr(data, "trade"))
        ELSE [i \in 1..Len(lines) |-> Strip(lines[i])]

ExpLines(data) ==
    LET lines == StrippedNonBlank(SplitLines(GetStr(data, "experience_text")))
    IN  IF lines = <<>>
        THEN GenericExperience(GetStr(data, "trade"))
        ELSE lines

\* data.get("skills_list") or [s.strip() for s in ... .split(',') if s.strip()]
ResolvedSkills(data) ==
    GetOr(data, "skills_list",
          StrippedNonBlank(Split(GetOr(data, "skills_text", <<>>), ",")))

GenericSkills(trade) ==
    << trade \o GenericSkill1Tail, GenericSkill2, GenericSkill3 >>

Skills(data) ==
    IF ResolvedSkills(data) = <<>>
    THEN GenericSkills(GetStr(data, "trade"))
    ELSE ResolvedSkills(data)

\* data.get("certifications") or []
ResolvedCerts(data) == GetOr(data, "certifications", <<>>)

CertsSeparator == <<",", " ">>

\* the join taken only for two entries or more
CertsTextOffByOne(certs) ==
    IF Len(certs) > 1 THEN Join(certs, CertsSeparator) ELSE NotAvailable

CertsText(certs) ==
    IF certs # <<>> THEN Join(certs, CertsSeparator) ELSE NotAvailable

Parts(data) ==
    LET base == << SummaryLabel \o Summary(data) \o <<"\n">>,
                   ExperienceLabel \o Bullets(ExpLines(data)),
                   SkillsLabel \o Bullets(Skills(data)),
                   CertificationsLabel \o CertsText(ResolvedCerts(data)) >>
    IN  IF Truthy(data, "education")
        THEN Append(base, EducationLabel \o data.education)
        ELSE base

build_fallback_resume_text(data) == Join(Parts(data), <<"\n">>)

\* the locals of one run of build_fallback_resume_text
FallbackLocals(data) ==
    [ called     |-> TRUE,
      summary    |-> Summary(data),
      exp_lines  |-> ExpLines(data),
      skills     |-> Skills(data),
      certs      |-> ResolvedCerts(data),
      certs_text |-> CertsText(ResolvedCerts(data)),
      parts      |-> Parts(data) ]

NoFallback ==
    [ called |-> FALSE, summary |-> <<>>, exp_lines |-> <<>>,
      skills |-> <<>>, certs |-> <<>>, certs_text |-> <<>>, parts |-> <<>> ]

\* ------------------------------------------------------------------------
\* Remote boundary: responses are JSON values tagged by their type
\* ------------------------------------------------------------------------
JStr(s) == [str |-> s]

JArr(a) == [arr |-> a]

JObj(o) == [obj |-> o]

JNull == [null |-> TRUE]

Ok(v) == [ok |-> TRUE, val |-> v, exc |-> ""]

Err(e) == [ok |-> FALSE, val |-> JNull, exc |-> e]

\* j[key] for a string key
GetItem(j, key) ==
    IF "obj" \in DOMAIN j
    THEN IF key \in DOMAIN j.obj THEN Ok(j.obj[key]) ELSE Err("KeyError")
    ELSE Err("TypeError")

\* j[0]
GetFirst(j) ==
    IF "arr" \in DOMAIN j
    THEN IF Len(j.arr) > 0 THEN Ok(j.arr[1]) ELSE Err("IndexError")
    ELSE IF "str" \in DOMAIN j
    THEN IF Len(j.str) > 0 THEN Ok(JStr(<<j.str[1]>>)) ELSE Err("IndexError")
    ELSE IF "obj" \in DOMAIN j THEN Err("KeyError")
    ELSE Err("TypeError")

\* j.strip()
StripMethod(j) ==
    IF "str" \in DOMAIN j THEN Ok(JStr(Strip(j.str))) ELSE Err("AttributeError")

\* resp["choices"][0]["message"]["content"].strip(); the first step that
\* raises ends the evaluation
ExtractContent(resp) ==
    LET choices == GetItem(resp, "choices")
        first   == IF choices.ok THEN GetFirst(choices.val) ELSE choices
        message == IF first.ok THEN GetItem(first.val, "message") ELSE first
        content == IF message.ok
                   THEN GetItem(message.val, "content")
                   ELSE message
    IN  IF content.ok THEN StripMethod(content.val) ELSE content

\* what the service may answer
WellFormed(text) ==
    JObj([choices |-> JArr(<< JObj([message |->
             JObj([role |-> JStr(<<"a">>), content |-> JStr(text)])]) >>)])

Responses ==
    << WellFormed(<<" ", "R", "e", "s", "u", "m", "e", "\n">>),
       WellFormed(<<>>),
       JObj([error |-> JStr(<<"e">>)]),
       JObj([choices |-> JArr(<<>>)]),
       JObj([choices |-> JArr(<< JObj([finish_reason |-> JStr(<<"s">>)]) >>)]),
       JObj([choices |-> JArr(<< JObj([message |->
             JObj([role |-> JStr(<<"a">>)])]) >>)]),
       JObj([choices |-> JArr(<< JObj([message |->
             JObj([role |-> JStr(<<"a">>), content |-> JNull])]) >>)]),
       JObj([choices |-> JStr(<<"x">>)]),
       JNull >>

\* exceptions openai.ChatCompletion.create raises
RemoteErrors == {"APIError", "APIConnectionError", "RateLimitError"}

TimeoutError == "Timeout"

\* exceptions of the expression of line 150
ParseErrors == {"KeyError", "IndexError", "TypeError", "AttributeError"}

\* a handler for the errors of the service only
CaughtServiceErrorsOnly(e) == e \in RemoteErrors \cup {TimeoutError}

\* a handler the timeout of the boundary escapes
CaughtButTimeout(e) == e \in RemoteErrors \cup ParseErrors

\* "except Exception": every exception class above derives from Exception
Caught(e) == e \in RemoteErrors \cup {TimeoutError} \cup ParseErrors

\* where control goes after the handler of lines 151-152
AfterHandler(e) == "fallback"

\* build_prompt_for_openai: the instruction followed by json.dumps(data)
PromptHead == "You are a helpful assistant that writes concise, professional resume content for blue-collar professionals."

build_prompt_for_openai(data) == [head |-> PromptHead, json |-> data]

Request(prompt) ==
    [ model       |-> "gpt-4o-mini",
      messages    |-> << [role |-> "user", content |-> prompt] >>,
      temperature |-> "0.2",
      max_tokens  |-> 700 ]

\* ------------------------------------------------------------------------
\* Inputs
\* ------------------------------------------------------------------------
RECURSIVE SeqsUpTo(_, _)
\* the sequences over alpha of length at most n
SeqsUpTo(alpha, n) ==
    IF n = 0 THEN {<<>>}
    ELSE LET shorter == SeqsUpTo(alpha, n - 1)
         IN  shorter \cup {Append(s, c) : s \in shorter, c \in alpha}

Trades == {<<>>, <<"W", "e">>}

YearsBuckets == {<<"5", "-", "1", "0">>}

NotesTexts == {<<>>, <<"o", "k">>}

EducationTexts == {<<>>, <<"I", "T", "I">>}

\* what the skills text area may hold
SkillsTexts ==
    { <<>>, <<",">>, <<",", " ">>, <<"k">>, <<" ", "k">>, <<"k", ",">>,
      <<",", "k">>, <<"k", ",", " ", "k">> }

CertNames == {<<"N", "/", "A">>, <<"c">>}

\* line 322: the list the form derives from the free text
DerivedSkills(text) == StrippedNonBlank(Split(text, ","))

OptionalKeys ==
    {"skills_list", "skills_text", "certifications", "special_notes",
     "education"}

\* a profile; with omit, the optional keys whose value is empty are missing
Profile(t, y, e, st, sl, c, x, n, omit) ==
    LET p == [ name             |-> <<"J">>,
               trade            |-> t,
               years_experience |-> y,
               education        |-> e,
               skills_text      |-> st,
               skills_list      |-> sl,
               certifications   |-> c,
               experience_text  |-> x,
               special_notes    |-> n ]
    IN  [ k \in DOMAIN p \cup {"absent"} |->
            IF k = "absent"
            THEN (IF omit THEN {o \in OptionalKeys : p[o] = <<>>} ELSE {})
            ELSE p[k] ]

\* d is a profile with an experience text and a certifications list of at
\* most the given lengths and one of the given skills texts; the skills list
\* is the one the form derives from the text, or is empty; the profiles
\* without certifications also come with their empty optional keys missing
ProfileChosen(d, expLen, skillsTexts, certLen) ==
    \E t \in Trades, y \in YearsBuckets, e \in EducationTexts,
       st \in skillsTexts,
       c \in SeqsUpTo(CertNames, certLen),
       x \in SeqsUpTo({" ", "\n", "r"}, expLen),
       n \in NotesTexts :
        \E sl \in {<<>>, DerivedSkills(st)},
           omit \in (IF c = <<>> THEN BOOLEAN ELSE {FALSE}) :
            d = Profile(t, y, e, st, sl, c, x, n, omit)

\* an empty form
BlankProfile ==
    Profile(<<>>, <<"5", "-", "1", "0">>, <<>>, <<>>, <<>>, <<>>, <<>>, <<>>,
            FALSE)

\* os.getenv("OPENAI_API_KEY"): unset, empty or a key
ApiKeys ==
    { [set |-> FALSE, value |-> <<>>],
      [set |-> TRUE,  value |-> <<>>],
      [set |-> TRUE,  value |-> <<"s", "k">>] }

\* "api_key is not None" in place of the truth value
KeyPresentIfSet(key) == key.set

\* truth value of api_key at line 140
KeyPresent(key) == key.set /\ key.value # <<>>

\* the guard of line 140
RemoteEnabled(available, key) == available /\ KeyPresent(key)

\* ------------------------------------------------------------------------
\* State
\* ------------------------------------------------------------------------
VARIABLES
    data,              \* the profile passed to generate_resume_text
    OPENAI_AVAILABLE,  \* lines 132-136
    api_key,           \* the environment's OPENAI_API_KEY
    pc,                \* position in generate_resume_text
    request,           \* the request sent to the service, if any
    resp,              \* the answer of the service
    exc,               \* the exception in flight
    timed_out,         \* the call ended by the boundary's bounded wait
    calls,             \* remote calls made
    warnings,          \* st.warning messages
    result,            \* the returned text
    fb                 \* locals of build_fallback_resume_text

textVars ==
    << data, OPENAI_AVAILABLE, api_key, pc, request, resp, exc, timed_out,
       calls, warnings, result, fb >>

VARIABLES
    resume_text,   \* arguments of create_pdf_bytes
    name,
    contact_info,
    template,
    photo_bytes,   \* "none" before the first call
    rpc,           \* position in create_pdf_bytes
    pdf,           \* the FPDF object
    files,         \* the temporary files that exist
    tmp_file,      \* the file NamedTemporaryFile made for this call, 0 if none
    tmp_path,      \* [bound, path]: the local tmp_path
    rexc,          \* exception in flight in the photo step
    log,           \* lines printed
    ncalls,        \* calls of create_pdf_bytes started
    history        \* what the finished calls returned

pdfVars ==
    << resume_text, name, contact_info, template, photo_bytes, rpc, pdf,
       files, tmp_file, tmp_path, rexc, log, ncalls, history >>

NoRequest == [sent |-> FALSE]

InitTextOn(expLen, skillsTexts, certLen) ==
    /\ ProfileChosen(data, expLen, skillsTexts, certLen)
    /\ OPENAI_AVAILABLE \in BOOLEAN
    /\ api_key \in ApiKeys
    /\ pc = "start"
    /\ request = NoRequest
    /\ resp = JNull
    /\ exc = ""
    /\ timed_out = FALSE
    /\ calls = 0
    /\ warnings = <<>>
    /\ result = <<>>
    /\ fb = NoFallback

\* lines 139-142
CheckCredential ==
    /\ pc = "start"
    /\ pc' = IF RemoteEnabled(OPENAI_AVAILABLE, api_key) THEN "call" ELSE "fallback"
    /\ UNCHANGED << pdfVars, data, OPENAI_AVAILABLE, api_key, request, resp, exc,
                    timed_out, calls, warnings, result, fb >>

\* lines 144-149: the request leaves
RemoteCall ==
    /\ pc = "call"
    /\ request' = [sent |-> TRUE,
                   body |-> Request(build_prompt_for_openai(data))]
    /\ calls' = calls + 1
    /\ pc' = "wait"
    /\ UNCHANGED << pdfVars, data, OPENAI_AVAILABLE, api_key, resp, exc, timed_out,
                    warnings, result, fb >>

\* the service answers
RemoteAnswers ==
    /\ pc = "wait"
    /\ \E i \in 1..Len(Responses) : resp' = Responses[i]
    /\ pc' = "parse"
    /\ UNCHANGED << pdfVars, data, OPENAI_AVAILABLE, api_key, request, exc, timed_out,
                    calls, warnings, result, fb >>

\* the call raises a network or service error
RemoteFails ==
    /\ pc = "wait"
    /\ \E e \in RemoteErrors : exc' = e
    /\ pc' = "except"
    /\ UNCHANGED << pdfVars, data, OPENAI_AVAILABLE, api_key, request, resp, timed_out,
                    calls, warnings, result, fb >>

\* no answer within the bounded wait of the boundary: the call raises
RemoteTimesOut ==
    /\ pc = "wait"
    /\ exc' = TimeoutError
    /\ timed_out' = TRUE
    /\ pc' = "except"
    /\ UNCHANGED << pdfVars, data, OPENAI_AVAILABLE, api_key, request, resp, calls,
                    warnings, result, fb >>

\* line 150
ParseResponse ==
    /\ pc = "parse"
    /\ LET r == ExtractContent(resp)
       IN  IF r.ok
           THEN /\ result' = r.val.str
                /\ pc' = "done"
                /\ exc' = exc
           ELSE /\ exc' = r.exc
                /\ pc' = "except"
                /\ result' = result
    /\ UNCHANGED << pdfVars, data, OPENAI_AVAILABLE, api_key, request, resp, timed_out,
                    calls, warnings, fb >>

\* lines 151-152
HandleException ==
    /\ pc = "except"
    /\ IF Caught(exc)
       THEN /\ warnings' = Append(warnings, exc)
            /\ pc' = AfterHandler(exc)
       ELSE /\ pc' = "raised"
            /\ warnings' = warnings
    /\ UNCHANGED << pdfVars, data, OPENAI_AVAILABLE, api_key, request, resp, exc,
                    timed_out, calls, result, fb >>

\* line 153
ReturnFallback ==
    /\ pc = "fallback"
    /\ LET locals == FallbackLocals(data)
       IN  /\ fb' = locals
           /\ result' = Join(locals.parts, <<"\n">>)
    /\ pc' = "done"
    /\ UNCHANGED << pdfVars, data, OPENAI_AVAILABLE, api_key, request, resp, exc,
                    timed_out, calls, warnings >>

NextText ==
    \/ CheckCredential
    \/ RemoteCall
    \/ RemoteAnswers
    \/ RemoteFails
    \/ RemoteTimesOut
    \/ ParseResponse
    \/ HandleException
    \/ ReturnFallback


\* ------------------------------------------------------------------------
\* FPDF: an A4 page in millimetres with the library's default margins
\* ------------------------------------------------------------------------
PageWidth == 210

PageHeight == 297

LeftMargin == 10

RightMargin == 10

TopMargin == 10

\* line 205: set_auto_page_break(auto=True, margin=15)
BottomMargin == 15

PageBreakTrigger == PageHeight - BottomMargin

\* line 210
photo_width == 35

photo_height == 35

PhotoX == 15

PhotoY == 20

HeadingX == 60

HeadingY == 25

HeadingHeight == 10

ContactHeight == 8

BodyGap == 10

BodyLineHeight == 7

NoFont == [family |-> "", style |-> "", size |-> 0]

\* line 227
heading_font == [family |-> "Helvetica", style |-> "B", size |-> 20]

\* line 228
body_font == [family |-> "Helvetica", style |-> "", size |-> 12]

Black == <<0, 0, 0>>

\* line 229
primary_color(tpl) ==
    IF tpl = "Modern Blue" THEN <<0, 102, 204>> ELSE Black

\* lines 204-206: FPDF(), set_auto_page_break, add_page()
NewPdf ==
    [ page |-> 1, x |-> LeftMargin, y |-> TopMargin, font |-> NoFont,
      text_color |-> Black, items |-> <<>> ]

SetXY(p, x, y) == [p EXCEPT !.x = x, !.y = y]

SetX(p, x) == [p EXCEPT !.x = x]

\* set_y also moves the cursor back to the left margin
SetY(p, y) == [p EXCEPT !.x = LeftMargin, !.y = y]

SetFont(p, f) == [p EXCEPT !.font = f]

SetTextColor(p, c) == [p EXCEPT !.text_color = c]

\* the automatic page break taken before a cell that would pass the trigger
BreakIfNeeded(p, h) ==
    IF p.y + h > PageBreakTrigger
    THEN [p EXCEPT !.page = p.page + 1, !.y = TopMargin]
    ELSE p

\* cell(0, h, txt, ln=True): a cell up to the right margin, then the cursor
\* goes to the left margin of the next line
Cell(p, h, txt, kind) ==
    LET q == BreakIfNeeded(p, h)
        item == [ kind |-> kind, page |-> q.page, x |-> q.x, y |-> q.y,
                  w |-> PageWidth - RightMargin - q.x, h |-> h,
                  text |-> txt, font |-> q.font, color |-> q.text_color ]
    IN  [q EXCEPT !.items = Append(q.items, item),
                  !.x = LeftMargin, !.y = q.y + h]

\* image(path, x, y, w, h) with an explicit y leaves the cursor alone
PlaceImage(p, x, y, w, h) ==
    LET item == [ kind |-> "photo", page |-> p.page, x |-> x, y |-> y,
                  w |-> w, h |-> h, text |-> <<>>, font |-> NoFont,
                  color |-> Black ]
    IN  [p EXCEPT !.items = Append(p.items, item)]

\* the lines multi_cell prints: carriage returns dropped, one final line
\* break ignored, split at the line breaks (every line of the explored
\* texts is narrower than the page, so none is wrapped)
BodyLines(txt) ==
    LET s == SelectSeq(txt, LAMBDA c : c # "\r")
        t == IF s # <<>> /\ s[Len(s)] = "\n"
             THEN SubSeq(s, 1, Len(s) - 1)
             ELSE s
    IN  Split(t, "\n")

RECURSIVE PrintLines(_, _, _)
\* one cell per line, each below the other (the test on q makes TLC
\* evaluate the cell before it goes on to the next line)
PrintLines(p, lines, h) ==
    IF lines = <<>> THEN p
    ELSE LET q == Cell(p, h, Head(lines), "body")
         IN  IF q.page >= p.page THEN PrintLines(q, Tail(lines), h) ELSE q

\* multi_cell(0, h, txt)
MultiCell(p, h, txt) == PrintLines(p, BodyLines(txt), h)

\* pdf.output(dest='S'), line 249
Output(p) ==
    [ header |-> "%PDF-1.3", pages |-> p.page, objects |-> p.items,
      trailer |-> "%%EOF" ]

\* number of parts of the serialized document
OutputSize(out) == 2 + Len(out.objects)

NoOutput == [header |-> "", pages |-> 0, objects |-> <<>>, trailer |-> ""]

\* ------------------------------------------------------------------------
\* create_pdf_bytes
\* ------------------------------------------------------------------------
ContactKeys == {"city", "phone", "email"}

\* truth value of contact_info at line 236: None and {} are false
ContactGiven(c) == ~c.none /\ c.absent # ContactKeys

\* contact_info.get(k); None when the key is missing
ContactField(c, k) == IF k \in c.absent THEN <<>> ELSE c[k]

\* lines 239-241
contact_line(c) ==
    Join(SelectSeq(<< ContactField(c, "city"), ContactField(c, "phone"),
                      ContactField(c, "email") >>,
                   LAMBDA v : v # <<>>),
         <<" ", "|", " ">>)

\* the heading moved right only when a photo was placed
HeadingOriginByPhoto(p) ==
    [x |-> IF p.items = <<>> THEN LeftMargin ELSE HeadingX, y |-> HeadingY]

\* where the heading is put, line 231
HeadingOrigin(p) == [x |-> HeadingX, y |-> HeadingY]

\* lines 231-234
RenderHeading(p, nm, tpl) ==
    LET o  == HeadingOrigin(p)
        p1 == SetXY(p, o.x, o.y)
        p2 == SetTextColor(p1, primary_color(tpl))
        p3 == SetFont(p2, heading_font)
    IN  Cell(p3, HeadingHeight, Upper(nm), "name")

\* lines 236-243
RenderContact(p, c) ==
    IF ContactGiven(c)
    THEN LET p1 == SetFont(p, body_font)
             p2 == SetTextColor(p1, Black)
             p3 == SetX(p2, HeadingX)
         IN  Cell(p3, ContactHeight, contact_line(c), "contact")
    ELSE p

\* lines 245-247
RenderBody(p, txt) ==
    LET p1 == SetY(p, p.y + BodyGap)
        p2 == SetFont(p1, body_font)
    IN  MultiCell(p2, BodyLineHeight, txt)

\* truth value of photo_bytes at line 211: None and b"" are false
PhotoGiven(photo) == photo \in {"valid", "corrupt"}

\* a handler for file errors only
PhotoCaughtOSErrorOnly(e) == e = "OSError"

\* "except Exception" of line 220
PhotoCaught(e) == e \in {"OSError", "UnidentifiedImageError", "RuntimeError"}

\* line 223: the file is removed only when tmp_path was bound
CleanupRuns(bound, path, existing) == bound /\ path \in existing

Names == {<<>>, <<"J", "o">>}

Templates == {"Modern Blue", "Classic Gray"}

ContactInfos ==
    { [none |-> TRUE, city |-> <<>>, phone |-> <<>>, email |-> <<>>,
       absent |-> ContactKeys] }
    \cup
    { c \in [ none : {FALSE}, city : {<<>>, <<"P">>}, phone : {<<>>, <<"9">>},
              email : {<<>>, <<"@">>}, absent : {{}, ContactKeys} ] :
          c.absent = ContactKeys =>
              c.city = <<>> /\ c.phone = <<>> /\ c.email = <<>> }

BodyTexts ==
    { <<>>, <<"S", "\n", "-", "a">>, [i \in 1..LongBody |-> "\n"] }

PhotoKinds == {"none", "empty", "valid", "corrupt"}

Unbound == [bound |-> FALSE, path |-> 0]

PdfIdle ==
    /\ photo_bytes = "none"
    /\ rpc = "idle"
    /\ pdf = NewPdf
    /\ files = {}
    /\ tmp_file = 0
    /\ tmp_path = Unbound
    /\ rexc = ""
    /\ log = <<>>
    /\ ncalls = 0
    /\ history = <<>>

InitPdf ==
    /\ resume_text \in BodyTexts
    /\ name \in Names
    /\ contact_info \in ContactInfos
    /\ template \in Templates
    /\ PdfIdle

\* lines 202-211: a call starts, with or without photo bytes
CallCreatePdf ==
    /\ rpc = "idle"
    /\ ncalls < MaxCalls
    /\ \E ph \in PhotoKinds :
          /\ photo_bytes' = ph
          /\ rpc' = IF PhotoGiven(ph) THEN "tmp_create" ELSE "heading"
    /\ ncalls' = ncalls + 1
    /\ pdf' = NewPdf
    /\ tmp_file' = 0
    /\ tmp_path' = Unbound
    /\ rexc' = ""
    /\ log' = <<>>
    /\ UNCHANGED << textVars, resume_text, name, contact_info, template, files, history >>

\* line 213: NamedTemporaryFile(delete=False) makes the file
CreateTemp ==
    /\ rpc = "tmp_create"
    /\ tmp_file' = ncalls
    /\ files' = files \cup {ncalls}
    /\ rpc' = "tmp_write"
    /\ UNCHANGED << textVars, resume_text, name, contact_info, template, photo_bytes,
                    pdf, tmp_path, rexc, log, ncalls, history >>

\* line 213 raises: no file was made
CreateTempFails ==
    /\ rpc = "tmp_create"
    /\ rexc' = "OSError"
    /\ rpc' = "photo_except"
    /\ UNCHANGED << textVars, resume_text, name, contact_info, template, photo_bytes,
                    pdf, files, tmp_file, tmp_path, log, ncalls, history >>

\* lines 214-216: the bytes are written and tmp_path is bound
WriteTemp ==
    /\ rpc = "tmp_write"
    /\ tmp_path' = [bound |-> TRUE, path |-> tmp_file]
    /\ rpc' = "decode"
    /\ UNCHANGED << textVars, resume_text, name, contact_info, template, photo_bytes,
                    pdf, files, tmp_file, rexc, log, ncalls, history >>

\* line 214 or 215 raises (disk full): the with block is left before line 216
WriteTempFails ==
    /\ rpc = "tmp_write"
    /\ rexc' = "OSError"
    /\ rpc' = "photo_except"
    /\ UNCHANGED << textVars, resume_text, name, contact_info, template, photo_bytes,
                    pdf, files, tmp_file, tmp_path, log, ncalls, history >>

\* line 217: Image.open(tmp_path).convert("RGB")
DecodeImage ==
    /\ rpc = "decode"
    /\ IF photo_bytes = "valid"
       THEN rpc' = "save" /\ rexc' = rexc
       ELSE rpc' = "photo_except" /\ rexc' = "UnidentifiedImageError"
    /\ UNCHANGED << textVars, resume_text, name, contact_info, template, photo_bytes,
                    pdf, files, tmp_file, tmp_path, log, ncalls, history >>

\* line 218
SaveImage ==
    /\ rpc = "save"
    /\ rpc' = "embed"
    /\ UNCHANGED << textVars, resume_text, name, contact_info, template, photo_bytes,
                    pdf, files, tmp_file, tmp_path, rexc, log, ncalls, history >>

SaveImageFails ==
    /\ rpc = "save"
    /\ rexc' = "OSError"
    /\ rpc' = "photo_except"
    /\ UNCHANGED << textVars, resume_text, name, contact_info, template, photo_bytes,
                    pdf, files, tmp_file, tmp_path, log, ncalls, history >>

\* line 219
EmbedImage ==
    /\ rpc = "embed"
    /\ pdf' = PlaceImage(pdf, PhotoX, PhotoY, photo_width, photo_height)
    /\ rpc' = "photo_finally"
    /\ UNCHANGED << textVars, resume_text, name, contact_info, template, photo_bytes,
                    files, tmp_file, tmp_path, rexc, log, ncalls, history >>

EmbedImageFails ==
    /\ rpc = "embed"
    /\ rexc' = "RuntimeError"
    /\ rpc' = "photo_except"
    /\ UNCHANGED << textVars, resume_text, name, contact_info, template, photo_bytes,
                    pdf, files, tmp_file, tmp_path, log, ncalls, history >>

\* lines 220-221
PhotoExcept ==
    /\ rpc = "photo_except"
    /\ IF PhotoCaught(rexc)
       THEN log' = Append(log, rexc) /\ rexc' = ""
       ELSE log' = log /\ rexc' = rexc
    /\ rpc' = "photo_finally"
    /\ UNCHANGED << textVars, resume_text, name, contact_info, template, photo_bytes,
                    pdf, files, tmp_file, tmp_path, ncalls, history >>

\* lines 222-224, then on to line 227 or out with the uncaught exception
PhotoFinally ==
    /\ rpc = "photo_finally"
    /\ files' = IF CleanupRuns(tmp_path.bound, tmp_path.path, files)
                THEN files \ {tmp_path.path}
                ELSE files
    /\ IF rexc = ""
       THEN rpc' = "heading" /\ history' = history
       ELSE /\ rpc' = "idle"
            /\ history' = Append(history,
                   [photo |-> photo_bytes, raised |-> TRUE, items |-> pdf.items,
                    out |-> NoOutput, log |-> log])
    /\ UNCHANGED << textVars, resume_text, name, contact_info, template, photo_bytes,
                    pdf, tmp_file, tmp_path, rexc, log, ncalls >>

\* lines 227-234
Heading ==
    /\ rpc = "heading"
    /\ pdf' = RenderHeading(pdf, name, template)
    /\ rpc' = "contact"
    /\ UNCHANGED << textVars, resume_text, name, contact_info, template, photo_bytes,
                    files, tmp_file, tmp_path, rexc, log, ncalls, history >>

\* lines 236-243
Contact ==
    /\ rpc = "contact"
    /\ pdf' = RenderContact(pdf, contact_info)
    /\ rpc' = "body"
    /\ UNCHANGED << textVars, resume_text, name, contact_info, template, photo_bytes,
                    files, tmp_file, tmp_path, rexc, log, ncalls, history >>

\* lines 245-247
Body ==
    /\ rpc = "body"
    /\ pdf' = RenderBody(pdf, resume_text)
    /\ rpc' = "output"
    /\ UNCHANGED << textVars, resume_text, name, contact_info, template, photo_bytes,
                    files, tmp_file, tmp_path, rexc, log, ncalls, history >>

\* lines 249-250
ReturnBytes ==
    /\ rpc = "output"
    /\ history' = Append(history,
           [photo |-> photo_bytes, raised |-> FALSE, items |-> pdf.items,
            out |-> Output(pdf), log |-> log])
    /\ rpc' = "idle"
    /\ UNCHANGED << textVars, resume_text, name, contact_info, template, photo_bytes,
                    pdf, files, tmp_file, tmp_path, rexc, log, ncalls >>

NextPdf ==
    \/ CallCreatePdf
    \/ CreateTemp
    \/ CreateTempFails
    \/ WriteTemp
    \/ WriteTempFails
    \/ DecodeImage
    \/ SaveImage
    \/ SaveImageFails
    \/ EmbedImage
    \/ EmbedImageFails
    \/ PhotoExcept
    \/ PhotoFinally
    \/ Heading
    \/ Contact
    \/ Body
    \/ ReturnBytes

\* ------------------------------------------------------------------------
\* Specifications
\* ------------------------------------------------------------------------
vars == << textVars, pdfVars >>

\* no render is in progress while a text is synthesized
NoRender ==
    /\ resume_text = <<>>
    /\ name = <<>>
    /\ contact_info \in {c \in ContactInfos : c.none}
    /\ template = "Modern Blue"
    /\ PdfIdle

\* text synthesis of a profile without a configured service
NoSynthesis ==
    /\ InitTextOn(0, {<<>>}, 0)
    /\ data = BlankProfile
    /\ ~OPENAI_AVAILABLE
    /\ ~api_key.set

\* generate_resume_text
Init == InitTextOn(MaxGenLen, {<<>>}, MaxGenLen) /\ NoRender

Next == NextText

Spec == Init /\ [][Next]_vars

\* generate_resume_text under its scheduling: the code is sequential and
\* the boundary bounds the wait for an answer, so a step that can be taken
\* is eventually taken
InitFair == InitTextOn(0, {<<>>}, 0) /\ NoRender

FairSpec == InitFair /\ [][Next]_vars /\ WF_vars(Next)

\* build_fallback_resume_text on every explored profile
InitFallback ==
    /\ InitTextOn(MaxExpLen, SkillsTexts, MaxCerts)
    /\ ~OPENAI_AVAILABLE
    /\ ~api_key.set
    /\ NoRender

NextFallback ==
    \/ CheckCredential
    \/ ReturnFallback

SpecFallback == InitFallback /\ [][NextFallback]_vars

\* create_pdf_bytes
InitRender == NoSynthesis /\ InitPdf

NextRender == NextPdf

SpecPdf == InitRender /\ [][NextRender]_vars

\* ------------------------------------------------------------------------
\* Properties of generate_resume_text
\* ------------------------------------------------------------------------
\* the answers of the service that carry a completion text
CompletionResponses == {Responses[1], Responses[2]}

\* the remote path failed: the call raised or the answer was malformed
RemotePathFailed ==
    /\ request.sent
    /\ pc \in {"except", "fallback", "done", "raised"}
    /\ (exc # "" \/ resp \notin CompletionResponses)

\* C1: a failure of the remote call (an error of the network or service, a
\* malformed answer) is never propagated: once generate_resume_text has
\* returned after such a failure, one warning was surfaced and the returned
\* text is build_fallback_resume_text of the same profile.
C1_RemoteFailureFallsBack ==
    /\ pc # "raised"
    /\ (pc = "done" /\ RemotePathFailed) =>
          /\ Len(warnings) = 1
          /\ result = build_fallback_resume_text(data)

C1_Witness ==
    /\ pc = "done"
    /\ calls = 1
    /\ exc \in ParseErrors
    /\ resp \notin CompletionResponses
    /\ Len(warnings) = 1
    /\ result = build_fallback_resume_text(data)

\* C2: without a credential (unset or empty) or without the client library
\* no remote call is attempted and no warning is surfaced, and the returned
\* text is the fallback text; no synthesis makes more than one remote call.
C2_NoCredentialNoCall ==
    /\ calls <= 1
    /\ (~OPENAI_AVAILABLE \/ ~api_key.set \/ api_key.value = <<>>) =>
          /\ calls = 0
          /\ ~request.sent
          /\ warnings = <<>>
          /\ pc \notin {"call", "wait", "parse", "except", "raised"}
          /\ pc = "done" => result = build_fallback_resume_text(data)

C2_Witness ==
    /\ pc = "done"
    /\ OPENAI_AVAILABLE
    /\ api_key.set
    /\ api_key.value = <<>>
    /\ calls = 0
    /\ warnings = <<>>
    /\ result = build_fallback_resume_text(data)

LineFrom(text, from) ==
    LET stops == {j \in from..Len(text) : text[j] = "\n"}
        stop  == IF stops = {} THEN Len(text) + 1
                 ELSE CHOOSE j \in stops : \A k \in stops : j <= k
    IN  SubSeq(text, from, stop - 1)

\* the line that follows the first line made of heading
LineUnder(text, heading) ==
    LET n    == Len(heading)
        at   == {i \in 1..(Len(text) - n) :
                    /\ SubSeq(text, i, i + n - 1) = heading
                    /\ text[i + n] = "\n"
                    /\ i = 1 \/ text[i - 1] = "\n"}
        head == CHOOSE i \in at : \A k \in at : i <= k
    IN  LineFrom(text, head + n + 1)

CertificationsHeading ==
    <<"C", "E", "R", "T", "I", "F", "I", "C", "A", "T", "I", "O", "N", "S">>

RECURSIVE CommaJoined(_)
\* the entries in their order, ", " between neighbours
CommaJoined(list) ==
    IF list = <<>> THEN <<>>
    ELSE IF Len(list) = 1 THEN list[1]
    ELSE CommaJoined(SubSeq(list, 1, Len(list) - 1))
            \o <<",", " ">> \o list[Len(list)]

\* the certifications list of the profile: data.get("certifications") or []
GivenCerts ==
    IF "certifications" \in data.absent THEN <<>> ELSE data.certifications

FallbackReturned == pc = "done" /\ fb.called

\* C8 as stated: the line under CERTIFICATIONS is "N/A" if and only if the
\* certifications list is empty, and otherwise is the comma-join of the list.
C8_NAIffEmpty ==
    FallbackReturned =>
        /\ (LineUnder(result, CertificationsHeading) = <<"N", "/", "A">>)
              <=> (GivenCerts = <<>>)
        /\ GivenCerts # <<>> =>
              LineUnder(result, CertificationsHeading) = CommaJoined(GivenCerts)

\* C8 amended: the line under CERTIFICATIONS is "N/A" if the certifications
\* list is empty, and otherwise is the list's entries in their order joined
\* by ", " (so it also reads "N/A" for the one-entry list ["N/A"]).
C8_CertificationsLine ==
    FallbackReturned =>
        /\ GivenCerts = <<>> =>
              LineUnder(result, CertificationsHeading) = <<"N", "/", "A">>
        /\ GivenCerts # <<>> =>
              LineUnder(result, CertificationsHeading) = CommaJoined(GivenCerts)

C8_Witness ==
    /\ FallbackReturned
    /\ Len(GivenCerts) = 2
    /\ GivenCerts[1] # GivenCerts[2]
    /\ LineUnder(result, CertificationsHeading) = CommaJoined(GivenCerts)

\* the experience text has no non-blank line
NoExperienceGiven ==
    \A i \in 1..Len(data.experience_text) :
        data.experience_text[i] \in {" ", "\n", "\r", "\t"}

\* the resolved skills list is empty
NoSkillsGiven ==
    /\ "skills_list" \in data.absent \/ data.skills_list = <<>>
    /\ \/ "skills_text" \in data.absent
       \/ \A i \in 1..Len(data.skills_text) :
             data.skills_text[i] \in {" ", "\n", "\r", "\t", ","}

Dash(line) == <<"-", " ">> \o line

\* the text of a profile without experience, skills and certifications
GenericText ==
    SummaryLabel \o fb.summary \o <<"\n", "\n">>
    \o ExperienceLabel
    \o Dash(GenericExp1Head \o Lower(data.trade) \o GenericExp1Tail) \o <<"\n">>
    \o Dash(GenericExp2) \o <<"\n">>
    \o Dash(GenericExp3) \o <<"\n">>
    \o SkillsLabel
    \o Dash(data.trade \o GenericSkill1Tail) \o <<"\n">>
    \o Dash(GenericSkill2) \o <<"\n">>
    \o Dash(GenericSkill3) \o <<"\n">>
    \o CertificationsLabel \o <<"N", "/", "A">>
    \o (IF "education" \in data.absent \/ data.education = <<>>
        THEN <<>>
        ELSE <<"\n">> \o EducationLabel \o data.education)

\* every section has content under its heading
NoEmptySection ==
    /\ fb.summary # <<>>
    /\ fb.exp_lines # <<>>
    /\ \A i \in 1..Len(fb.exp_lines) : fb.exp_lines[i] # <<>>
    /\ fb.skills # <<>>
    /\ \A i \in 1..Len(fb.skills) : fb.skills[i] # <<>>
    /\ fb.certs_text # <<>>
    /\ Len(fb.parts) \in {4, 5}
    /\ Len(fb.parts[1]) > Len(SummaryLabel) + 1
    /\ Len(fb.parts[2]) > Len(ExperienceLabel) + 2
    /\ Len(fb.parts[3]) > Len(SkillsLabel) + 2
    /\ Len(fb.parts[4]) > Len(CertificationsLabel)
    /\ Len(fb.parts) = 5 => Len(fb.parts[5]) > Len(EducationLabel)
    /\ result = Join(fb.parts, <<"\n">>)

\* C9: for a profile whose experience text has no non-blank line and whose
\* resolved skills and certifications lists are empty, the fallback text has
\* exactly the three generic experience bullets, the three generic skill
\* bullets of the trade and the "N/A" certifications line; and no section
\* of a fallback text is empty.
C9_GenericSections ==
    FallbackReturned =>
        /\ NoEmptySection
        /\ (NoExperienceGiven /\ NoSkillsGiven /\ GivenCerts = <<>>) =>
              result = GenericText

C9_Witness ==
    /\ FallbackReturned
    /\ NoExperienceGiven
    /\ Len(data.experience_text) = MaxExpLen
    /\ NoSkillsGiven
    /\ data.skills_text = <<",", " ">>
    /\ GivenCerts = <<>>
    /\ data.trade # <<>>
    /\ result = GenericText

\* ------------------------------------------------------------------------
\* Properties of create_pdf_bytes
\* ------------------------------------------------------------------------
PhotoSteps ==
    {"tmp_create", "tmp_write", "decode", "save", "embed", "photo_except",
     "photo_finally"}

\* C3: once the photo step of a call with photo bytes is left, the temporary
\* file the call created does not exist any more, whichever of writing,
\* decoding, re-saving and embedding succeeded or raised.
C3_TempFileRemoved ==
    (PhotoGiven(photo_bytes) /\ rpc \notin PhotoSteps) => tmp_file \notin files

ItemsOfKind(items, kind) == SelectSeq(items, LAMBDA it : it.kind = kind)

\* two rectangles of the same page share a point of their interiors
Overlap(a, b) ==
    /\ a.page = b.page
    /\ a.x < b.x + b.w
    /\ b.x < a.x + a.w
    /\ a.y < b.y + b.h
    /\ b.y < a.y + a.h

\* C4: in a render with a photo the blocks of the first page (photo, name
\* heading, contact line, body block) are pairwise disjoint rectangles.
C4_NoOverlap ==
    (rpc = "output" /\ ItemsOfKind(pdf.items, "photo") # <<>>) =>
        \A i, j \in 1..Len(pdf.items) :
            (i < j /\ pdf.items[i].page = 1) =>
                ~Overlap(pdf.items[i], pdf.items[j])

\* some contact field is non-empty
AnyContactField ==
    /\ ~contact_info.none
    /\ \E k \in ContactKeys \ contact_info.absent : contact_info[k] # <<>>

\* a before b with " | " between them when both are there
Beside(a, b) ==
    IF a = <<>> THEN b
    ELSE IF b = <<>> THEN a
    ELSE a \o <<" ", "|", " ">> \o b

\* the non-empty fields in the order city, phone, email
ContactFields ==
    IF contact_info.none \/ contact_info.absent = ContactKeys THEN <<>>
    ELSE Beside(Beside(contact_info.city, contact_info.phone),
                contact_info.email)

\* the kinds of the text blocks, in the order they were rendered
TextKinds(items) ==
    LET texts == SelectSeq(items, LAMBDA it : it.kind # "photo")
    IN  [i \in 1..Len(texts) |-> texts[i].kind]

NameThenContactThenBody(items) ==
    LET kinds == TextKinds(items)
    IN  /\ Len(kinds) >= 2
        /\ kinds[1] = "name"
        /\ kinds[Len(kinds)] = "body"
        /\ \A i \in 2..Len(kinds) :
              \/ kinds[i] = "body"
              \/ i = 2 /\ kinds[i] = "contact"
        /\ AnyContactField => kinds[2] = "contact"

\* C5: with corrupt photo bytes create_pdf_bytes does not abort: the failure
\* is caught and logged, no photo is placed, the name, the contact line and
\* the body are rendered in this order and a non-empty document is returned.
C5_CorruptPhotoOmitted ==
    /\ photo_bytes = "corrupt" => ItemsOfKind(pdf.items, "photo") = <<>>
    /\ \A i \in 1..Len(history) :
          history[i].photo = "corrupt" =>
              /\ ~history[i].raised
              /\ history[i].log # <<>>
              /\ ItemsOfKind(history[i].items, "photo") = <<>>
              /\ NameThenContactThenBody(history[i].items)
              /\ history[i].out.objects = history[i].items
              /\ OutputSize(history[i].out) > 0

C5_Witness ==
    /\ history # <<>>
    /\ history[1].photo = "corrupt"
    /\ history[1].log = <<"UnidentifiedImageError">>
    /\ ~history[1].raised
    /\ AnyContactField
    /\ TextKinds(history[1].items) = <<"name", "contact", "body", "body">>

\* the name heading, the contact line and the body lines of a document
Layout(items) == SelectSeq(items, LAMBDA it : it.kind # "photo")

\* C6: calls that differ only in the photo bytes (valid, corrupt, absent)
\* place the name heading, the contact line and the body at the same
\* positions, with the same fonts and colors.
C6_PhotoLeavesLayout ==
    \A i, j \in 1..Len(history) :
        /\ ~history[i].raised
        /\ Layout(history[i].items) = Layout(history[j].items)
        /\ history[i].out.pages = history[j].out.pages

C6_Witness ==
    /\ Len(history) = 2
    /\ history[1].photo = "valid"
    /\ ItemsOfKind(history[1].items, "photo") # <<>>
    /\ history[2].photo \in {"none", "corrupt"}
    /\ ItemsOfKind(history[2].items, "photo") = <<>>
    /\ Len(Layout(history[2].items)) >= 3
    /\ Layout(history[1].items) = Layout(history[2].items)

\* C10: a contact line is rendered exactly when one of city, phone, email
\* is non-empty; it is the non-empty fields in the order city, phone, email
\* joined by " | "; without any contact field no line is rendered and the
\* vertical cursor stays right below the heading.
C10_ContactLineIffPresent ==
    rpc = "body" =>
        LET lines == ItemsOfKind(pdf.items, "contact")
        IN  /\ (lines # <<>>) <=> AnyContactField
            /\ AnyContactField =>
                  /\ Len(lines) = 1
                  /\ lines[1].text = ContactFields
            /\ ~AnyContactField => pdf.y = HeadingY + HeadingHeight
====
